---------------------------- MODULE Spec2Model ----------------------------
(***************************************************************************)
(* A model of the standalone proxy path of repust: one client connection   *)
(* served by a Front task, and one Back (or BlackHole) task per backend    *)
(* address.  Commands are shared between the Front's sent_queue and the    *)
(* backend channel / Back store; both protocol implementations of the      *)
(* Request trait (redis::Cmd and mc::Cmd) are covered through `proto`.     *)
(***************************************************************************)
EXTENDS Integers, Sequences, FiniteSets, TLC

(***************************************************************************)
(* Bounds of the model.                                                    *)
(***************************************************************************)
\* number of requests the client sends on its connection
MaxReq == 2
\* capacity of a backend channel (bounded(1024 * 8) in the source)
ChanCap == 1
\* number of adverse events of the environment in one run: a sink that is not
\* ready or fails, a backend stream that fails or ends, an elapsed timeout
MaxFaults == 1

(***************************************************************************)
(* Program constants.                                                      *)
(***************************************************************************)
MAX_CYCLE == 1
DEFAULT_CYCLE == 0
FRONTEND_MAX_POLL_ERROR == 10
DOWNSTREAM_MAX_POLL_ERROR == 10

Nodes == {"A", "B"}
Protos == {"redis", "mc"}

VARIABLES
    proto,                  \* which Request implementation the cluster runs
    backKind,               \* per address: "back" (connected) or "blackhole"
    ringInner,              \* the addresses that have a Conn in Ring.inner
    cmds,                   \* every Command created so far (Arc<RwLock<Command>>)
    pendingIn,              \* requests sent by the client, not yet decoded
    nSent,                  \* requests the client has sent so far
    clientClosed,           \* the client has closed its connection
    sent_queue,             \* Front.sent_queue
    upstream_poll_error,    \* Front.upstream_poll_error
    frontDone,              \* the Front future has returned Ready
    frontAwake,             \* the Front task is scheduled to be polled
    written,                \* commands handed to the client sink, in order
    chan,                   \* per address: the bounded channel Front -> Back
    store,                  \* per address: Back.store (0 is None)
    sub_cmds,               \* per address: Back.sub_cmds (last element is the top)
    delayed,                \* per address: Back.delayed
    downstream_poll_error,  \* per address: Back.downstream_poll_error
    backDone,               \* per address: the Back/BlackHole future returned Ready
    wire,                   \* per address: requests written to the backend, unanswered
    abandoned,              \* commands a Back-side holder dropped while not DONE
    faults,                 \* adverse events of the environment so far
    call,                   \* a function applied on its own: its name and arguments
    ret                     \* the value that call returned, once it has returned

vars == <<proto, backKind, ringInner, cmds, pendingIn, nSent, clientClosed, sent_queue,
          upstream_poll_error, frontDone, frontAwake, written, chan, store,
          sub_cmds, delayed, downstream_poll_error, backDone, wire, abandoned,
          faults, call, ret>>

frontVars == <<sent_queue, upstream_poll_error, frontDone, written>>
backVars == <<store, sub_cmds, delayed, downstream_poll_error, backDone, wire>>
callVars == <<call, ret>>
machineVars == <<proto, backKind, ringInner, cmds, pendingIn, nSent, clientClosed,
                 frontAwake, chan, abandoned, faults, frontVars, backVars>>

(***************************************************************************)
(* Replies.  A reply produced by a backend names the request it answers.   *)
(***************************************************************************)
NoReply == [kind |-> "none", of |-> 0]
ErrReply(e) == [kind |-> e, of |-> 0]
LocalReply(s) == [kind |-> s, of |-> 0]
BackendReply(req) == [kind |-> "reply", of |-> req]

(***************************************************************************)
(* Command: the shared, lock-protected body of a request.                  *)
(***************************************************************************)
\* verb and ctype are req.nth(0) and cmd_type; key is the argument key_hash
\* reads (req.nth(key_pos)), a sequence of bytes; waker is the handle's waker;
\* the reply slot is Some when a reply was stored and has not been taken out
NewCommand(verb, ctype, key, subs) ==
    [verb |-> verb, ctype |-> ctype, key |-> key, subs |-> subs,
     done |-> FALSE, error |-> FALSE, reply |-> NoReply,
     cycle |-> DEFAULT_CYCLE, sent |-> FALSE, waker |-> FALSE, taken |-> FALSE]

\* Command::set_reply: store the reply, set DONE, take the remote tracker
Command_set_reply(c, r) ==
    [c EXCEPT !.reply = r, !.done = TRUE, !.sent = FALSE, !.taken = FALSE]

\* the reply slot of a command is Some
ReplyIsSome(c) == c.reply # NoReply /\ ~c.taken

\* Command::set_error (the flag)
Command_set_error(c) == [c EXCEPT !.error = TRUE]

Command_can_cycle(c) == c.cycle < MAX_CYCLE

AddTwoCycles(c) == [c EXCEPT !.cycle = @ + 2]

Command_add_cycle(c) == [c EXCEPT !.cycle = @ + 1]

\* Request::mark_sent: arm the remote tracker
MarkSent(cs, id) == [cs EXCEPT ![id].sent = TRUE]

\* Request::get_sent_time is Some
HasSentTime(cs, id) == cs[id].sent

HasSubs(cs, id) == cs[id].subs # <<>>

\* Request::is_done: computed from the subs when there are subs
IsDone(cs, id) ==
    IF HasSubs(cs, id)
    THEN \A i \in 1..Len(cs[id].subs) : cs[cs[id].subs[i]].done
    ELSE cs[id].done

\* Request::set_reply (the wakeup is accounted for by the caller)
SetReply(cs, id, r) == [cs EXCEPT ![id] = Command_set_reply(@, r)]

\* Request::set_error: reply and flags go on the command's own body
SetError(cs, id, e) ==
    [cs EXCEPT ![id] = Command_set_error(Command_set_reply(@, ErrReply(e)))]

\* Request::set_reply wakes the registered waker for redis::Cmd only
WakesOnReply == proto = "redis"

RECURSIVE DropLeaves(_, _)
\* mc: every dropped handle of a leaf that is not DONE forces ProxyFail on it
DropLeaves(cs, ids) ==
    IF ids = <<>> THEN cs
    ELSE LET id == Head(ids)
             cs1 == IF cs[id].done THEN cs ELSE SetError(cs, id, "ProxyFail")
         IN DropLeaves(cs1, Tail(ids))

\* What a call of Request::is_done leaves behind: mc::Cmd clones the subs
\* and drops the clones, redis::Cmd has no Drop.
IsDoneEffect(cs, id) ==
    IF proto = "mc" /\ HasSubs(cs, id) THEN DropLeaves(cs, cs[id].subs) ELSE cs

\* impl Drop for mc::Cmd: if !self.is_done() { self.set_error(ProxyFail) }
DropCmd(cs, id) ==
    IF proto = "mc"
    THEN LET d == IsDone(cs, id)
             cs1 == IsDoneEffect(cs, id)
         IN IF d THEN cs1 ELSE SetError(cs1, id, "ProxyFail")
    ELSE cs

RECURSIVE TakeReplies(_, _)
\* cmd.reply.take() on each of the given leaves
TakeReplies(cs, ids) ==
    IF ids = <<>> THEN cs
    ELSE TakeReplies([cs EXCEPT ![Head(ids)].taken = TRUE], Tail(ids))

\* Encoder::encode of a command handed to the client sink: mc's FrontCodec
\* takes the reply out of each leaf it writes, RedisHandleCodec only reads
Encode(cs, id) ==
    IF proto = "mc"
    THEN TakeReplies(cs, IF HasSubs(cs, id) THEN cs[id].subs ELSE <<id>>)
    ELSE cs

RECURSIVE DropAll(_, _)
DropAll(cs, ids) ==
    IF ids = <<>> THEN cs ELSE DropAll(DropCmd(cs, Head(ids)), Tail(ids))

RECURSIVE NotDoneOf(_, _)
NotDoneOf(cs, ids) ==
    IF ids = <<>> THEN {}
    ELSE (IF IsDone(cs, Head(ids)) THEN {} ELSE {Head(ids)}) \cup NotDoneOf(cs, Tail(ids))

Range(s) == {s[i] : i \in 1..Len(s)}

(***************************************************************************)
(* Bytes and keys.  A byte is a one-character string, a key a sequence of  *)
(* bytes.                                                                  *)
(***************************************************************************)
Foo == <<"f", "o", "o">>
Baz == <<"b", "a", "z">>
\* two keys that carry the same hash tag content u between { and }
TagU1 == <<"{", "u", "}", "1">>
TagU2 == <<"{", "u", "}", "2">>
Password == <<"p", "w">>
BYTES_SLOTS == <<"S", "L", "O", "T", "S">>
BYTES_NODES == <<"N", "O", "D", "E", "S">>
\* the cursor argument of a SCAN
Cursor0 == <<"0">>
BYTES_CMD_COMMAND == <<"C", "O", "M", "M", "A", "N", "D">>
BYTES_CMD_INFO == <<"I", "N", "F", "O">>
\* the verbs as the bytes of the first bulk of a request
VerbBytes ==
    [COMMAND |-> BYTES_CMD_COMMAND, INFO |-> BYTES_CMD_INFO,
     GET |-> <<"G", "E", "T">>, SET |-> <<"S", "E", "T">>,
     EVAL |-> <<"E", "V", "A", "L">>, MEMORY |-> <<"M", "E", "M", "O", "R", "Y">>]

Ascii ==
    [c \in {"a", "b", "f", "o", "p", "u", "w", "z", "1", "2", "{", "}",
            "A", "C", "D", "M", "N", "O", "0", "L", "S", "T", "I", "F"} |->
        CASE c = "a" -> 97 [] c = "b" -> 98 [] c = "f" -> 102 [] c = "o" -> 111
          [] c = "p" -> 112 [] c = "u" -> 117 [] c = "w" -> 119 [] c = "z" -> 122
          [] c = "1" -> 49 [] c = "2" -> 50 [] c = "{" -> 123 [] c = "}" -> 125
          [] c = "A" -> 65 [] c = "C" -> 67 [] c = "D" -> 68 [] c = "M" -> 77
          [] c = "N" -> 78 [] c = "O" -> 79 [] c = "0" -> 48 [] c = "L" -> 76
          [] c = "S" -> 83 [] c = "T" -> 84 [] c = "I" -> 73 [] c = "F" -> 70]

\* the position of the first element of s that equals x, 0 when there is none
\* (Iterator::position, counted from 1)
Position(s, x) ==
    IF \E i \in 1..Len(s) : s[i] = x
    THEN CHOOSE i \in 1..Len(s) : s[i] = x /\ \A j \in 1..(i - 1) : s[j] # x
    ELSE 0

\* trim_hash_tag: end_offset is the offset of hash_tag[1] within key[begin..],
\* the search starting at the opening byte itself
TrimHashTag(key, hash_tag) ==
    IF Len(hash_tag) # 2 THEN key
    ELSE LET begin == Position(key, hash_tag[1])
         IN IF begin = 0 THEN key
            ELSE LET found == Position(SubSeq(key, begin, Len(key)), hash_tag[2])
                     end_offset == found - 1
                 IN IF found # 0 /\ end_offset > 1
                    THEN SubSeq(key, begin + 1, begin + end_offset - 1)
                    ELSE key

RECURSIVE Fnv1a64From(_, _)
Fnv1a64From(h, bytes) ==
    IF bytes = <<>> THEN h
    ELSE Fnv1a64From(((h + Ascii[Head(bytes)]) * 31) % 256, Tail(bytes))

\* fnv1a64, scaled to one byte of state
Fnv1a64(bytes) == Fnv1a64From(0, bytes)

COMMAND_POS == 0
KEY_EVAL_POS == 3
KEY_RAW_POS == 1
KEY_MEMORY_POS == 2

KeyPosRaw(ctype) == KEY_RAW_POS

\* Command::key_pos
KeyPos(ctype) ==
    IF ctype = "Eval" THEN KEY_EVAL_POS
    ELSE IF ctype = "Info" \/ ctype = "Command" THEN COMMAND_POS
    ELSE IF ctype = "Memory" THEN KEY_MEMORY_POS
    ELSE KEY_RAW_POS

\* Command::key_hash of a request given as its bulks, the verb first: the
\* hasher applied to the trimmed bulk at key_pos, u64::MAX when the request
\* is too short
KeyHashOfReq(ctype, req, hash_tag) ==
    LET pos == KeyPos(ctype)
    IN IF pos + 1 <= Len(req)
       THEN [pos |-> pos, max |-> FALSE,
             hash |-> Fnv1a64(TrimHashTag(req[pos + 1], hash_tag))]
       ELSE [pos |-> pos, max |-> TRUE, hash |-> 0]

\* Command::key_hash: the hasher applied to the trimmed key
KeyHash(c, hash_tag) == Fnv1a64(TrimHashTag(c.key, hash_tag))

(***************************************************************************)
(* Decoding: the commands a request creates.                               *)
(***************************************************************************)
Shapes == {"get_foo", "get_baz", "mget", "ping"}
\* requests about the whole keyspace or the cluster
WideShapes == {"get_foo", "scan", "cluster_slots"}
\* requests for keys that share a hash tag
TagShapes == {"get_u1", "get_u2"}
\* requests the proxy is to answer by itself
ControlShapes == {"get_foo", "ping", "command", "select", "bogus", "quit"}
\* requests of a client of a cluster that has a password
AuthShapes == {"get_foo", "auth"}

\* init_cmds: the verbs of the table that the requests above use
CmdTable == [GET |-> "Read", MGET |-> "MGet", PING |-> "Ctrl", QUIT |-> "Ctrl",
             COMMAND |-> "Command", SELECT |-> "NotSupport", AUTH |-> "Auth",
             DEL |-> "Del", EXISTS |-> "Exists", MSET |-> "MSet",
             SET |-> "Write", SCAN |-> "Scan", EVAL |-> "Eval", INFO |-> "Info",
             MEMORY |-> "Memory", CLUSTER |-> "Ctrl"]

GetCmdTypeOrRead(verb) ==
    IF verb \in DOMAIN CmdTable THEN CmdTable[verb] ELSE "Read"

\* CmdType::get_cmd_type: a verb that is not in the table is NotSupport
GetCmdType(verb) ==
    IF verb \in DOMAIN CmdTable THEN CmdTable[verb] ELSE "NotSupport"

RECURSIVE IdsFrom(_, _)
\* the ids of n commands allocated from id first
IdsFrom(first, n) ==
    IF n = 0 THEN <<>> ELSE <<first>> \o IdsFrom(first + 1, n - 1)

RECURSIVE SubsOf(_, _, _)
\* the loop of mk_subs over the keys of the request
SubsOf(verb, ctype, keys) ==
    IF keys = <<>> THEN <<>>
    ELSE <<NewCommand(verb, ctype, Head(keys), <<>>)>>
            \o SubsOf(verb, ctype, Tail(keys))

\* Command::mk_subs: one sub per key, each with the request's verb and type
\* and its own key; the parent hashes its first key
MkSubs(verb, ctype, keys, base) ==
    <<NewCommand(verb, ctype, keys[1], IdsFrom(base + 2, Len(keys)))>>
        \o SubsOf(verb, ctype, keys)

RECURSIVE Chunks2(_)
\* array[1..].chunks(2): the arguments two by two
Chunks2(args) ==
    IF args = <<>> THEN <<>>
    ELSE <<SubSeq(args, 1, 2)>> \o Chunks2(SubSeq(args, 3, Len(args)))

RECURSIVE MSetSubReqs(_, _)
\* the request of each sub of mk_mset: vec![array[0], key, val]
MSetSubReqs(verb, chunks) ==
    IF chunks = <<>> THEN <<>>
    ELSE <<<<verb, Head(chunks)[1], Head(chunks)[2]>>>>
            \o MSetSubReqs(verb, Tail(chunks))

RECURSIVE FirstOfEach(_)
FirstOfEach(chunks) ==
    IF chunks = <<>> THEN <<>>
    ELSE <<Head(chunks)[1]>> \o FirstOfEach(Tail(chunks))

\* Command::mk_mset: one sub per chunk of two arguments; cmds are the request
\* and its subs, reqs the requests the subs carry
MkMSet(verb, ctype, args, base) ==
    [cmds |-> MkSubs(verb, ctype, FirstOfEach(Chunks2(args)), base),
     reqs |-> MSetSubReqs(verb, Chunks2(args))]

NoLocalAnswer(c) == c

\* the ctrl verbs answered while decoding
LocalAnswer(c) ==
    IF c.ctype = "Ctrl" /\ c.verb = "PING"
    THEN Command_set_reply(c, LocalReply("PONG"))
    ELSE IF c.ctype = "Ctrl" /\ c.verb = "COMMAND"
    THEN Command_set_reply(c, LocalReply("NullArray"))
    ELSE c

\* From<MessageMut> for Cmd: the commands of a request with the given verb
\* and arguments
FromMessage(verb, args, base) ==
    LET ctype == GetCmdType(verb)
    IN IF ctype \in {"MGet", "Del", "Exists"} THEN MkSubs(verb, ctype, args, base)
       ELSE IF ctype = "MSet" THEN MkMSet(verb, ctype, args, base).cmds
       ELSE LET key == IF KeyPos(ctype) = COMMAND_POS THEN VerbBytes[verb]
                       ELSE IF Len(args) < KeyPos(ctype) THEN <<>>
                       ELSE args[KeyPos(ctype)]
            IN <<LocalAnswer(NewCommand(verb, ctype, key, <<>>))>>

\* From<MessageMut> for Cmd / Cmd::from_msg: ids are allocated from base + 1
Decode(shape, base) ==
    CASE shape = "get_foo" -> FromMessage("GET", <<Foo>>, base)
      [] shape = "get_baz" -> FromMessage("GET", <<Baz>>, base)
      [] shape = "get_u1" -> FromMessage("GET", <<TagU1>>, base)
      [] shape = "get_u2" -> FromMessage("GET", <<TagU2>>, base)
      [] shape = "mget" -> FromMessage("MGET", <<Foo, Baz>>, base)
      [] shape = "ping" -> FromMessage("PING", <<>>, base)
      [] shape = "command" -> FromMessage("COMMAND", <<>>, base)
      [] shape = "select" -> FromMessage("SELECT", <<<<"1">>>>, base)
      [] shape = "bogus" -> FromMessage("BOGUS", <<Foo>>, base)
      [] shape = "quit" -> FromMessage("QUIT", <<>>, base)
      [] shape = "auth" -> FromMessage("AUTH", <<Password>>, base)
      [] shape = "scan" -> FromMessage("SCAN", <<Cursor0>>, base)
      [] shape = "cluster_slots" -> FromMessage("CLUSTER", <<BYTES_SLOTS>>, base)

\* thread_local TLS_META: only meta_init fills it, and nothing calls meta_init
TLS_META == "None"

\* Cmd::check_valid is about to synthesize a CLUSTER reply from the metadata
WantsMeta(cs, id) ==
    /\ proto = "redis"
    /\ cs[id].ctype = "Ctrl" /\ ~cs[id].done
    /\ cs[id].verb = "CLUSTER" /\ cs[id].key \in {BYTES_SLOTS, BYTES_NODES}

\* meta::get_port: expect on the empty cell panics
CheckValidPanics(cs, id) == WantsMeta(cs, id) /\ TLS_META = "None"

\* Request::valid: the value Cmd::check_valid returns (mc::Cmd: always true)
Valid(cs, id) ==
    \/ proto = "mc"
    \/ /\ cs[id].ctype # "NotSupport"
       /\ (cs[id].done \/ cs[id].ctype # "Ctrl")

\* Cmd::check_valid: the reply it records on a request it rejects
ValidEffect(cs, id) ==
    IF proto = "mc" THEN cs
    ELSE IF cs[id].ctype = "NotSupport"
    THEN SetReply(cs, id, ErrReply("RequestNotSupport"))
    ELSE IF cs[id].done \/ cs[id].ctype # "Ctrl" THEN cs
    ELSE IF cs[id].verb = "QUIT" THEN SetReply(cs, id, LocalReply("EmptyInline"))
    ELSE IF WantsMeta(cs, id) /\ TLS_META # "None"
    THEN SetReply(cs, id, LocalReply(IF cs[id].key = BYTES_SLOTS THEN "ClusterSlots"
                                     ELSE "ClusterNodes"))
    ELSE SetReply(cs, id, ErrReply("RequestNotSupport"))

(***************************************************************************)
(* Routing.                                                                *)
(***************************************************************************)
\* HashRing::get_node: the ring of the scenario, which places the hash of foo
\* on node A and the hash of baz on node B
NodeOfHash(h) == IF h % 2 = 0 THEN "A" ELSE "B"

\* the node a key is placed on when the whole key is hashed
NodeOfKey(k) == NodeOfHash(Fnv1a64(k))

\* RingKeeper::get_sender: the node of the hash, if it has a conn
GetSender(hash, ring, conns) ==
    IF ring = {} THEN "none"
    ELSE IF NodeOfHash(hash) \in conns THEN NodeOfHash(hash) ELSE "none"

NoCall == [fn |-> "none"]
NoRet == [done |-> FALSE, value |-> <<>>]

\* the tasks of a connection as they are constructed
Start ==
    /\ proto \in Protos
    /\ backKind \in [Nodes -> {"back", "blackhole"}]
    /\ ringInner = Nodes
    /\ cmds = <<>>
    /\ pendingIn = 0
    /\ nSent = 0
    /\ clientClosed = FALSE
    /\ sent_queue = <<>>
    /\ upstream_poll_error = 0
    /\ frontDone = FALSE
    /\ frontAwake = TRUE
    /\ written = <<>>
    /\ chan = [n \in Nodes |-> <<>>]
    /\ store = [n \in Nodes |-> 0]
    /\ sub_cmds = [n \in Nodes |-> <<>>]
    /\ delayed = [n \in Nodes |-> 0]
    /\ downstream_poll_error = [n \in Nodes |-> 0]
    /\ backDone = [n \in Nodes |-> FALSE]
    /\ wire = [n \in Nodes |-> <<>>]
    /\ abandoned = {}
    /\ faults = 0

Init ==
    /\ Start
    /\ call = NoCall
    /\ ret = NoRet

(***************************************************************************)
(* The client side of the connection.                                      *)
(***************************************************************************)
\* the client writes one more request of at most n; the readable socket wakes
\* the Front
ClientSendUpTo(n) ==
    /\ ~clientClosed /\ ~frontDone /\ nSent < n
    /\ pendingIn' = pendingIn + 1
    /\ nSent' = nSent + 1
    /\ frontAwake' = TRUE
    /\ UNCHANGED <<proto, backKind, ringInner, cmds, clientClosed, frontVars,
                   chan, backVars, abandoned, faults, callVars>>

ClientSend == ClientSendUpTo(MaxReq)

\* the client closes its connection: the stream will yield None once drained
ClientClose ==
    /\ ~clientClosed /\ ~frontDone
    /\ clientClosed' = TRUE
    /\ frontAwake' = TRUE
    /\ UNCHANGED <<proto, backKind, ringInner, cmds, pendingIn, nSent,
                   frontVars, chan, backVars, abandoned, faults, callVars>>

(***************************************************************************)
(* Front::poll.                                                            *)
(***************************************************************************)
SinkReady == {"Ok", "Err", "Pending"}
SinkSend == {"Ok", "Err"}
SinkFlush == {"Ready", "Pending"}

Remove(q, i) == SubSeq(q, 1, i - 1) \o SubSeq(q, i + 1, Len(q))

PopBackIndex(q) == Len(q)

\* VecDeque::pop_front: the position of sent_queue the reply drain takes
PopFrontIndex(q) == 1

\* the reply drain: what is left of sent_queue after the popped command has
\* been looked at; a command that is not DONE is pushed back to the front
DrainQueue(q, headDone, rdy) ==
    IF headDone THEN Remove(q, PopFrontIndex(q))
    ELSE <<q[PopFrontIndex(q)]>> \o Remove(q, PopFrontIndex(q))

\* the head's reply is handed to the client sink
DrainWrites(headDone, rdy, snd) == headDone /\ rdy = "Ok" /\ snd = "Ok"

\* send_timeout on the node's channel
SendOutcome(target) ==
    IF target = "none" \/ target \notin ringInner THEN "nosender"
    ELSE IF backDone[target] THEN "disconnected"
    ELSE IF Len(chan[target]) >= ChanCap THEN "timeout"
    ELSE "ok"

\* the commands after the dispatch of command id with the given outcome
Dispatch(cs, id, outcome) ==
    CASE outcome = "ok" -> cs
      [] outcome = "timeout" -> DropCmd(SetError(cs, id, "CmdTimeout"), id)
      [] outcome = "disconnected" ->
            DropCmd(SetError(cs, id, "ClusterFailDispatch"), id)
      [] outcome = "nosender" -> SetError(cs, id, "ClusterFailDispatch")

\* the adverse events among the inputs of one Front tick
FrontFaults(rdy, snd, flush) ==
    (IF rdy # "Ok" THEN 1 ELSE 0) + (IF snd # "Ok" THEN 1 ELSE 0)
        + (IF flush # "Ready" THEN 1 ELSE 0)

FrontPoll(rdy, snd, flush, shape) ==
    /\ ~frontDone /\ frontAwake
    /\ faults + FrontFaults(rdy, snd, flush) <= MaxFaults
    /\ LET hasHead == sent_queue # <<>>
           head == sent_queue[PopFrontIndex(sent_queue)]
           headDone == hasHead /\ IsDone(cmds, head)
           cs0 == IF hasHead THEN IsDoneEffect(cmds, head) ELSE cmds
           wrote == DrainWrites(headDone, rdy, snd)
           sinkErr == headDone /\ rdy = "Err"
           q1 == IF hasHead THEN DrainQueue(sent_queue, headDone, rdy) ELSE <<>>
           cs1 == IF headDone /\ rdy = "Ok" THEN DropCmd(Encode(cs0, head), head)
                  ELSE IF headDone THEN DropCmd(cs0, head)
                  ELSE cs0
           err1 == IF sinkErr THEN upstream_poll_error + 1 ELSE upstream_poll_error
           closedBySink == sinkErr /\ err1 > FRONTEND_MAX_POLL_ERROR
           canRead == ~closedBySink /\ pendingIn > 0
           eof == ~closedBySink /\ pendingIn = 0 /\ clientClosed
           id == Len(cs1) + 1
           cs2 == ValidEffect(cs1 \o Decode(shape, Len(cs1)), id)
           needDispatch == Valid(cs1 \o Decode(shape, Len(cs1)), id)
                               /\ ~IsDone(cs2, id)
           polled == IF Valid(cs1 \o Decode(shape, Len(cs1)), id)
                     THEN IsDoneEffect(cs2, id) ELSE cs2
           cs3 == IF needDispatch THEN [polled EXCEPT ![id].waker = TRUE]
                  ELSE polled
           target == GetSender(KeyHash(cs3[id], <<>>), Nodes, Nodes)
           outcome == SendOutcome(target)
           cs4 == IF needDispatch THEN Dispatch(cs3, id, outcome) ELSE cs3
           panics == canRead /\ CheckValidPanics(cs1 \o Decode(shape, Len(cs1)), id)
           finished == closedBySink \/ eof \/ panics
       IN  /\ (headDone \/ rdy = "Ok")
           /\ ((headDone /\ rdy = "Ok") \/ snd = "Ok")
           /\ (wrote \/ flush = "Ready")
           /\ (canRead \/ shape = "get_foo")
           /\ (shape = "ping" => proto = "redis")
           /\ written' = IF wrote THEN Append(written, head) ELSE written
           /\ upstream_poll_error' = err1
           /\ frontDone' = finished
           /\ IF panics
              THEN /\ pendingIn' = pendingIn - 1
                   /\ cmds' = DropAll(cs1 \o Decode(shape, Len(cs1)), Append(q1, id))
                   /\ sent_queue' = <<>>
                   /\ chan' = chan
              ELSE IF canRead
              THEN /\ pendingIn' = pendingIn - 1
                   /\ cmds' = cs4
                   /\ sent_queue' = Append(q1, id)
                   /\ chan' = IF needDispatch /\ outcome = "ok"
                              THEN [chan EXCEPT ![target] = Append(@, id)]
                              ELSE chan
              ELSE /\ pendingIn' = pendingIn
                   /\ cmds' = IF finished THEN DropAll(cs1, q1) ELSE cs1
                   /\ sent_queue' = IF finished THEN <<>> ELSE q1
                   /\ chan' = chan
           /\ frontAwake' = /\ ~finished
                            /\ \/ canRead
                               \/ (headDone /\ rdy = "Pending")
                               \/ (wrote /\ flush = "Pending")
    /\ faults' = faults + FrontFaults(rdy, snd, flush)
    /\ UNCHANGED <<proto, backKind, ringInner, nSent, clientClosed, backVars,
                   abandoned, callVars>>

(***************************************************************************)
(* Back::poll.                                                             *)
(***************************************************************************)
BackState(b) ==
    [cmds |-> cmds, chan |-> chan[b], store |-> store[b], sub |-> sub_cmds[b],
     delayed |-> delayed[b], err |-> downstream_poll_error[b], wire |-> wire[b],
     lost |-> abandoned, wake |-> FALSE, ret |-> FALSE,
     senders |-> b \in ringInner]

\* a stack that is filled without .rev()
Unreversed(s) == s

Reverse(s) == [i \in 1..Len(s) |-> s[Len(s) + 1 - i]]
Last(s) == s[Len(s)]
ButLast(s) == SubSeq(s, 1, Len(s) - 1)

RECURSIVE RegisterWakers(_, _)
\* the subs of a command are given the command's waker
RegisterWakers(cs, ids) ==
    IF ids = <<>> THEN cs
    ELSE RegisterWakers([cs EXCEPT ![Head(ids)].waker = TRUE], Tail(ids))

\* a channel reported as disconnected although commands are queued in it
DisconnectedEarly(s) == ~s.senders

\* recv_timeout returns Disconnected: every sender is dropped and the channel
\* is empty
Disconnected(s) == ~s.senders /\ s.chan = <<>>

\* step 1: refill store from the sub stack or from the channel
Refill(s) ==
    IF s.store # 0 THEN s
    ELSE IF s.sub # <<>>
    THEN [s EXCEPT !.store = Last(s.sub), !.sub = ButLast(s.sub)]
    ELSE IF Disconnected(s) THEN [s EXCEPT !.ret = TRUE]
    ELSE IF s.chan = <<>> THEN s
    ELSE LET cmd == Head(s.chan)
             subs == s.cmds[cmd].subs
         IN IF ~s.cmds[cmd].waker
            THEN \* a command that arrives without a waker is dropped
                 [s EXCEPT !.chan = Tail(s.chan),
                           !.cmds = DropCmd(s.cmds, cmd),
                           !.lost = IF IsDone(s.cmds, cmd) THEN @ ELSE @ \cup {cmd}]
            ELSE IF subs # <<>>
            THEN LET stack == s.sub \o Reverse(subs)
                     cs1 == RegisterWakers(s.cmds, subs)
                 IN [s EXCEPT !.chan = Tail(s.chan),
                              !.store = Last(stack),
                              !.sub = ButLast(stack),
                              !.cmds = DropCmd(cs1, cmd)]
            ELSE [s EXCEPT !.chan = Tail(s.chan), !.store = cmd]

\* the sink reported an error for the command taken out of store
OnSinkError(s, cmd) ==
    LET s1 == IF Command_can_cycle(s.cmds[cmd])
              THEN LET cs1 == [s.cmds EXCEPT ![cmd] = Command_add_cycle(@)]
                   IN [s EXCEPT !.cmds = DropCmd(cs1, cmd),
                                !.store = 0,
                                !.lost = IF IsDone(cs1, cmd) THEN @ ELSE @ \cup {cmd}]
              ELSE [s EXCEPT !.cmds = SetError(s.cmds, cmd, "ProxyFail"),
                             !.store = 0]
    IN [s1 EXCEPT !.err = s.err + 1,
                  !.ret = s.err + 1 > DOWNSTREAM_MAX_POLL_ERROR]

\* the command is written to the backend sink
OnSinkReady(s, cmd, snd) ==
    LET cs1 == MarkSent(s.cmds, cmd)
    IN IF snd = "Err"
       THEN [s EXCEPT !.cmds = SetError(DropCmd(cs1, cmd), cmd, "ProxyFail"),
                      !.store = 0]
       ELSE [s EXCEPT !.cmds = DropCmd(cs1, cmd),
                      !.wire = Append(@, cmd),
                      !.store = cmd]

\* step 2: time the stored command out, or send it
TimeoutOrSend(s, rdy, snd, expired) ==
    IF s.store = 0 THEN s
    ELSE LET cmd == s.store
         IN IF HasSentTime(s.cmds, cmd)
            THEN IF expired
                 THEN [s EXCEPT !.cmds = SetError(s.cmds, cmd, "CmdTimeout"),
                                !.delayed = @ + 1,
                                !.store = 0]
                 ELSE s
            ELSE CASE rdy = "Ok" -> OnSinkReady(s, cmd, snd)
                   [] rdy = "Err" -> OnSinkError(s, cmd)
                   [] rdy = "Pending" -> s

\* step 3: poll the backend stream for the next item.  The backend answers
\* the requests on the wire once each and in order; an error item is the
\* answer to the oldest unanswered request failing to decode.
PollReply(s, up) ==
    IF s.ret \/ s.store = 0 THEN s
    ELSE CASE up = "reply" ->
                IF s.delayed > 0
                THEN [s EXCEPT !.delayed = @ - 1, !.wire = Tail(@)]
                ELSE [s EXCEPT !.cmds = SetReply(s.cmds, s.store,
                                                 BackendReply(Head(s.wire))),
                               !.wire = Tail(@),
                               !.wake = WakesOnReply,
                               !.store = 0]
           [] up = "err" ->
                [s EXCEPT !.cmds = SetError(s.cmds, s.store, "BadMessage"),
                          !.wire = IF @ = <<>> THEN @ ELSE Tail(@),
                          !.store = 0]
           [] up = "closed" -> [s EXCEPT !.ret = TRUE]
           [] up = "pending" -> s

\* the future returned Ready: the task and what it holds are dropped
Terminate(s) ==
    IF ~s.ret THEN s
    ELSE LET held == (IF s.store = 0 THEN <<>> ELSE <<s.store>>) \o s.sub \o s.chan
         IN [s EXCEPT !.cmds = DropAll(s.cmds, held),
                      !.lost = @ \cup NotDoneOf(s.cmds, held),
                      !.store = 0, !.sub = <<>>, !.chan = <<>>]

StreamItems == {"reply", "err", "closed", "pending"}

\* the adverse events among the inputs of one Back tick
BackFaults(rdy, snd, expired, up) ==
    (IF rdy # "Ok" THEN 1 ELSE 0) + (IF snd # "Ok" THEN 1 ELSE 0)
        + (IF expired THEN 1 ELSE 0) + (IF up \in {"err", "closed"} THEN 1 ELSE 0)

BackPoll(b, rdy, snd, expired, up) ==
    /\ backKind[b] = "back" /\ ~backDone[b]
    /\ faults + BackFaults(rdy, snd, expired, up) <= MaxFaults
    /\ (up = "reply" => wire[b] # <<>>)
    /\ LET s1 == Refill(BackState(b))
           needSink == s1.store # 0 /\ ~HasSentTime(s1.cmds, s1.store)
           needTimer == s1.store # 0 /\ HasSentTime(s1.cmds, s1.store)
       IN  /\ (needSink \/ rdy = "Ok")
           /\ ((needSink /\ rdy = "Ok") \/ snd = "Ok")
           /\ (needTimer \/ ~expired)
           /\ LET s2 == TimeoutOrSend(s1, rdy, snd, expired)
              IN /\ ((s2.store # 0 /\ ~s2.ret) \/ up = "pending")
                 /\ LET s == Terminate(PollReply(s2, up))
                    IN  /\ cmds' = s.cmds
                        /\ chan' = [chan EXCEPT ![b] = s.chan]
                        /\ store' = [store EXCEPT ![b] = s.store]
                        /\ sub_cmds' = [sub_cmds EXCEPT ![b] = s.sub]
                        /\ delayed' = [delayed EXCEPT ![b] = s.delayed]
                        /\ downstream_poll_error' =
                               [downstream_poll_error EXCEPT ![b] = s.err]
                        /\ wire' = [wire EXCEPT ![b] = s.wire]
                        /\ backDone' = [backDone EXCEPT ![b] = s.ret]
                        /\ abandoned' = s.lost
                        /\ frontAwake' = (frontAwake \/ (s.wake /\ ~frontDone))
    /\ faults' = faults + BackFaults(rdy, snd, expired, up)
    /\ UNCHANGED <<proto, backKind, ringInner, pendingIn, nSent, clientClosed,
                   frontVars, callVars>>

(***************************************************************************)
(* BlackHole::poll.                                                        *)
(***************************************************************************)
BlackHolePoll(b) ==
    /\ backKind[b] = "blackhole" /\ ~backDone[b]
    /\ IF chan[b] # <<>>
       THEN /\ LET cmd == Head(chan[b])
               IN cmds' = DropCmd(SetError(cmds, cmd, "BackendClosedError"), cmd)
            /\ chan' = [chan EXCEPT ![b] = Tail(@)]
            /\ UNCHANGED backVars
       ELSE /\ b \notin ringInner
            /\ backDone' = [backDone EXCEPT ![b] = TRUE]
            /\ UNCHANGED <<cmds, chan, store, sub_cmds, delayed,
                           downstream_poll_error, wire>>
    /\ UNCHANGED <<proto, backKind, ringInner, pendingIn, nSent, clientClosed,
                   frontVars, frontAwake, abandoned, faults, callVars>>

(***************************************************************************)
(* The inputs a tick can observe in the current state: an input that the   *)
(* tick does not read is fixed to its neutral value.                       *)
(***************************************************************************)
Budget(set, neutral) == IF faults < MaxFaults THEN set ELSE {neutral}

FrontHeadDone ==
    sent_queue # <<>> /\ IsDone(cmds, sent_queue[PopFrontIndex(sent_queue)])

FrontReadyInputs == IF FrontHeadDone THEN Budget(SinkReady, "Ok") ELSE {"Ok"}
FrontSendInputs(rdy) ==
    IF FrontHeadDone /\ rdy = "Ok" THEN Budget(SinkSend, "Ok") ELSE {"Ok"}
FrontFlushInputs(rdy, snd) ==
    IF FrontHeadDone /\ rdy = "Ok" /\ snd = "Ok" THEN Budget(SinkFlush, "Ready")
    ELSE {"Ready"}
\* the requests of the given menu that the stream can deliver
ShapeInputs(menu) ==
    IF pendingIn = 0 THEN {"get_foo"}
    ELSE IF proto = "redis" THEN menu ELSE menu \ {"ping"}
FrontShapeInputs == ShapeInputs(Shapes)

BackNeedsSink(b) ==
    LET s1 == Refill(BackState(b))
    IN s1.store # 0 /\ ~HasSentTime(s1.cmds, s1.store)
BackNeedsTimer(b) ==
    LET s1 == Refill(BackState(b))
    IN s1.store # 0 /\ HasSentTime(s1.cmds, s1.store)

BackReadyInputs(b) == IF BackNeedsSink(b) THEN Budget(SinkReady, "Ok") ELSE {"Ok"}
BackSendInputs(b, rdy) ==
    IF BackNeedsSink(b) /\ rdy = "Ok" THEN Budget(SinkSend, "Ok") ELSE {"Ok"}
BackTimerInputs(b) == IF BackNeedsTimer(b) THEN Budget(BOOLEAN, FALSE) ELSE {FALSE}
BackStreamInputs(b) ==
    IF store[b] = 0 /\ sub_cmds[b] = <<>> /\ chan[b] = <<>> THEN {"pending"}
    ELSE (IF wire[b] # <<>> THEN {"reply", "pending"} ELSE {"pending"})
            \cup Budget({"err", "closed"}, "pending")

\* one tick of the Front task with whatever its sink delivers and a request
\* of the given set
FrontStepFrom(shapes) ==
    \E rdy \in FrontReadyInputs : \E snd \in FrontSendInputs(rdy) :
    \E flush \in FrontFlushInputs(rdy, snd) : \E shape \in shapes :
       FrontPoll(rdy, snd, flush, shape)

\* one tick of the Front task with whatever its sink and stream deliver
FrontStep == FrontStepFrom(FrontShapeInputs)

\* one tick of the Back task of address b
BackStep(b) ==
    \E rdy \in BackReadyInputs(b) : \E snd \in BackSendInputs(b, rdy) :
    \E expired \in BackTimerInputs(b) : \E up \in BackStreamInputs(b) :
       BackPoll(b, rdy, snd, expired, up)

Next ==
    \/ ClientSend
    \/ ClientClose
    \/ FrontStep
    \/ \E b \in Nodes : BackStep(b)
    \/ \E b \in Nodes : BlackHolePoll(b)

Spec == Init /\ [][Next]_vars

\* Runs in which the client sends a single request.  The runtime polls every
\* task that has been woken: a Front whose waker fired, and the Back and
\* BlackHole tasks, which wake themselves on every tick.  The client is not
\* obliged to send or to close.
OneRequestNext ==
    \/ (nSent < 1 /\ ClientSend)
    \/ ClientClose
    \/ FrontStep
    \/ \E b \in Nodes : BackStep(b)
    \/ \E b \in Nodes : BlackHolePoll(b)

OneRequestFairSpec ==
    /\ Init
    /\ [][OneRequestNext]_vars
    /\ WF_vars(FrontStep)
    /\ \A b \in Nodes : WF_vars(BackStep(b)) /\ WF_vars(BlackHolePoll(b))

\* Runs of a client whose keys carry hash tags.
TagNext ==
    \/ ClientSend
    \/ ClientClose
    \/ FrontStepFrom(ShapeInputs(TagShapes))
    \/ \E b \in Nodes : BackStep(b)
    \/ \E b \in Nodes : BlackHolePoll(b)

TagSpec == Init /\ [][TagNext]_vars

\* Runs of a Redis client that also sends requests the proxy is to answer by
\* itself.
ControlInit == Init /\ proto = "redis"

ControlNext ==
    \/ ClientSend
    \/ ClientClose
    \/ FrontStepFrom(ShapeInputs(ControlShapes))
    \/ \E b \in Nodes : BackStep(b)
    \/ \E b \in Nodes : BlackHolePoll(b)

ControlSpec == ControlInit /\ [][ControlNext]_vars

\* Runs of a Redis client that also sends requests about the whole keyspace
\* or the cluster.
WideNext ==
    \/ ClientSend
    \/ ClientClose
    \/ FrontStepFrom(ShapeInputs(WideShapes))
    \/ \E b \in Nodes : BackStep(b)
    \/ \E b \in Nodes : BlackHolePoll(b)

WideSpec == ControlInit /\ [][WideNext]_vars

\* Request::auth_request: the command connect sends for a cluster that has a
\* password; into_cmd leaves its waker empty
AuthRequest == NewCommand("AUTH", "Auth", Password, <<>>)

\* the id of the auth command that connect sent on the channel of address b
AuthCmdOf(b) == IF b = "A" THEN 1 ELSE 2

\* Runs of a Redis cluster whose configuration has a non-empty auth string:
\* StandaloneCluster::connect has sent the auth command on each channel before
\* the channel was added to the ring.
AuthInit ==
    /\ proto = "redis"
    /\ backKind \in [Nodes -> {"back", "blackhole"}]
    /\ ringInner = Nodes
    /\ cmds = <<AuthRequest, AuthRequest>>
    /\ pendingIn = 0
    /\ nSent = 0
    /\ clientClosed = FALSE
    /\ sent_queue = <<>>
    /\ upstream_poll_error = 0
    /\ frontDone = FALSE
    /\ frontAwake = TRUE
    /\ written = <<>>
    /\ chan = [n \in Nodes |-> <<AuthCmdOf(n)>>]
    /\ store = [n \in Nodes |-> 0]
    /\ sub_cmds = [n \in Nodes |-> <<>>]
    /\ delayed = [n \in Nodes |-> 0]
    /\ downstream_poll_error = [n \in Nodes |-> 0]
    /\ backDone = [n \in Nodes |-> FALSE]
    /\ wire = [n \in Nodes |-> <<>>]
    /\ abandoned = {}
    /\ faults = 0
    /\ call = NoCall
    /\ ret = NoRet

AuthNext ==
    \/ ClientSend
    \/ ClientClose
    \/ FrontStepFrom(ShapeInputs(AuthShapes))
    \/ \E b \in Nodes : BackStep(b)
    \/ \E b \in Nodes : BlackHolePoll(b)

AuthSpec == AuthInit /\ [][AuthNext]_vars

\* Runs of a Redis client that pipelines PING, GET foo, PING.
Pipeline == <<"ping", "get_foo", "ping">>

\* the request the stream yields next: requests are read in the order sent
PipelineShapeInputs ==
    IF pendingIn = 0 THEN {"get_foo"} ELSE {Pipeline[nSent - pendingIn + 1]}

PipelineInit == Init /\ proto = "redis"

PipelineNext ==
    \/ ClientSendUpTo(Len(Pipeline))
    \/ ClientClose
    \/ FrontStepFrom(PipelineShapeInputs)
    \/ \E b \in Nodes : BackStep(b)
    \/ \E b \in Nodes : BlackHolePoll(b)

PipelineSpec == PipelineInit /\ [][PipelineNext]_vars

\* Ring::remove_conn on an address that has an entry: the Conn and its sender
\* are dropped.  A Front clones the sender for the length of one dispatch
\* only, so the channel has no sender left once the tick of the Front is over.
RemoveConn(b) ==
    /\ b \in ringInner
    /\ ringInner' = ringInner \ {b}
    /\ UNCHANGED <<proto, backKind, cmds, pendingIn, nSent, clientClosed,
                   frontVars, frontAwake, chan, backVars, abandoned, faults,
                   callVars>>

\* requests of a client of a cluster whose addresses are being removed
DrainShapes == {"get_foo"}

\* the address whose entry is removed
Removed == "A"

\* Runs in which the entry of one address is removed from the ring while a
\* client sends requests.  The runtime polls the Back and BlackHole tasks
\* again and again: each of them wakes itself on every tick that returns
\* Pending.  The client is not obliged to send or to close.
DrainNext ==
    \/ ClientSend
    \/ FrontStepFrom(ShapeInputs(DrainShapes))
    \/ \E b \in Nodes : BackStep(b)
    \/ \E b \in Nodes : BlackHolePoll(b)
    \/ RemoveConn(Removed)

DrainFairSpec ==
    /\ Init
    /\ [][DrainNext]_vars
    /\ WF_vars(BackStep(Removed))
    /\ WF_vars(BlackHolePoll(Removed))

(***************************************************************************)
(* Functions applied on their own, to arguments drawn from bounded sets.   *)
(***************************************************************************)
\* longest key and longest hash tag handed to trim_hash_tag
MaxKeyLen == 4
MaxTagLen == 3
\* largest number of keys of an MGET
MaxKeys == 3
MaxServers == 3

KeyBytes == {"{", "}", "a"}
TagBytes == {"{", "}"}

SeqsUpTo(S, n) == UNION {[1..k -> S] : k \in 0..n}

TrimCalls ==
    {[fn |-> "trim_hash_tag", key |-> k, hash_tag |-> t] :
        k \in SeqsUpTo(KeyBytes, MaxKeyLen), t \in SeqsUpTo(TagBytes, MaxTagLen)}

\* trim_hash_tag(key, hash_tag) returns
TrimHashTagCall ==
    /\ call.fn = "trim_hash_tag" /\ ~ret.done
    /\ ret' = [done |-> TRUE, value |-> TrimHashTag(call.key, call.hash_tag)]
    /\ UNCHANGED <<machineVars, call>>

SeqsFromTo(S, m, n) == UNION {[1..k -> S] : k \in m..n}

MkSubsCalls ==
    {[fn |-> "mk_subs", verb |-> v, keys |-> ks] :
        v \in {"MGET", "DEL", "EXISTS"}, ks \in SeqsFromTo({Foo, Baz}, 1, MaxKeys)}

\* Command::mk_subs returns the request and its subs
MkSubsCall ==
    /\ call.fn = "mk_subs" /\ ~ret.done
    /\ ret' = [done |-> TRUE,
               value |-> MkSubs(call.verb, GetCmdType(call.verb), call.keys, 0)]
    /\ UNCHANGED <<machineVars, call>>

BYTES_ARRAY == <<"*">>
BYTES_CRLF == <<"\r", "\n">>

\* the raw bytes of the replies a sub can carry: a bulk string, the null bulk
\* string and an error; NoneRaw stands for a sub whose reply is None
BulkA == <<"$", "1", "\r", "\n", "a", "\r", "\n">>
NullBulk == <<"$", "-", "1", "\r", "\n">>
ErrorE == <<"-", "E", "\r", "\n">>
NoneRaw == <<>>
RawReplies == {BulkA, NullBulk, ErrorE, NoneRaw}

Digits == <<"0", "1", "2", "3", "4", "5", "6", "7", "8", "9">>

RECURSIVE Itoa(_)
\* itoa: the decimal digits of a usize
Itoa(n) ==
    IF n < 10 THEN <<Digits[n + 1]>>
    ELSE Itoa(n \div 10) \o <<Digits[(n % 10) + 1]>>

RECURSIVE SaveSubsBackwards(_, _)
SaveSubsBackwards(buf, replies) ==
    IF replies = <<>> THEN [ok |-> TRUE, buf |-> buf]
    ELSE IF Last(replies) = NoneRaw THEN [ok |-> FALSE, buf |-> buf]
    ELSE SaveSubsBackwards(buf \o Last(replies), ButLast(replies))

RECURSIVE SaveSubs(_, _)
\* for sub in subs { sub.take_cmd().reply_raw(buf)?; }: a sub without a reply
\* ends the loop with BadReply
SaveSubs(buf, replies) ==
    IF replies = <<>> THEN [ok |-> TRUE, buf |-> buf]
    ELSE IF Head(replies) = NoneRaw THEN [ok |-> FALSE, buf |-> buf]
    ELSE SaveSubs(buf \o Head(replies), Tail(replies))

\* Command::reply_cmd of an MGET whose subs carry the given replies: the
\* buffer afterwards and the returned count, taken from after the array byte
ReplyCmd(buf, replies) ==
    LET b1 == buf \o BYTES_ARRAY
        begin == Len(b1)
        b2 == (b1 \o Itoa(Len(replies))) \o BYTES_CRLF
        r == SaveSubs(b2, replies)
    IN [ok |-> r.ok, buf |-> r.buf,
        size |-> IF r.ok THEN Len(r.buf) - begin ELSE 0]

ReplyCmdCalls ==
    {[fn |-> "reply_cmd", replies |-> rs] :
        rs \in SeqsFromTo(RawReplies, 1, MaxKeys)}

\* Command::reply_cmd returns, having written to an empty buffer
ReplyCmdCall ==
    /\ call.fn = "reply_cmd" /\ ~ret.done
    /\ ret' = [done |-> TRUE, value |-> ReplyCmd(<<>>, call.replies)]
    /\ UNCHANGED <<machineVars, call>>

\* values of an MSET
ValA == <<"a">>
ValB == <<"b">>
BYTES_JUST_OK == <<"+", "O", "K", "\r", "\n">>

RECURSIVE PairsToArgs(_)
PairsToArgs(pairs) ==
    IF pairs = <<>> THEN <<>> ELSE Head(pairs) \o PairsToArgs(Tail(pairs))

MkMSetCalls ==
    {[fn |-> "mk_mset", verb |-> "MSET", args |-> PairsToArgs(ps)] :
        ps \in SeqsFromTo({<<k, v>> : k \in {Foo, Baz}, v \in {ValA, ValB}},
                          1, MaxKeys)}

\* Command::mk_mset returns
MkMSetCall ==
    /\ call.fn = "mk_mset" /\ ~ret.done
    /\ ret' = [done |-> TRUE, value |-> MkMSet(call.verb, "MSet", call.args, 0)]
    /\ UNCHANGED <<machineVars, call>>

\* Command::reply_cmd of an MSET: the subs are not looked at
ReplyCmdMSet(buf, replies) ==
    [ok |-> TRUE, buf |-> buf \o BYTES_JUST_OK, size |-> Len(BYTES_JUST_OK)]

\* the replies of the subs of an MSET that is DONE: each SET was answered +OK
\* or with an error
ReplyCmdMSetCalls ==
    {[fn |-> "reply_cmd_mset", replies |-> rs] :
        rs \in SeqsFromTo({BYTES_JUST_OK, ErrorE}, 1, MaxKeys)}

ReplyCmdMSetCall ==
    /\ call.fn = "reply_cmd_mset" /\ ~ret.done
    /\ ret' = [done |-> TRUE, value |-> ReplyCmdMSet(<<>>, call.replies)]
    /\ UNCHANGED <<machineVars, call>>

BYTES_INTEGER == <<":">>
\* integer replies of a sub
Int0 == <<":", "0", "\r", "\n">>
Int1 == <<":", "1", "\r", "\n">>
Int2 == <<":", "2", "\r", "\n">>

\* Message::nth(0) of a reply that is not an array: the payload of the line,
\* without the type byte and the CRLF
Nth0(raw) == SubSeq(raw, 2, Len(raw) - 2)

RECURSIVE BtoiFrom(_, _)
BtoiFrom(acc, bytes) ==
    IF bytes = <<>> THEN acc
    ELSE IF Position(Digits, Head(bytes)) = 0 THEN -1
    ELSE BtoiFrom(acc * 10 + Position(Digits, Head(bytes)) - 1, Tail(bytes))

\* btoi::<usize>(data).unwrap_or(0)
BtoiOrZero(bytes) ==
    IF bytes = <<>> \/ BtoiFrom(0, bytes) < 0 THEN 0 ELSE BtoiFrom(0, bytes)

TotalOfLast(replies) ==
    IF Last(replies) = NoneRaw THEN 0 ELSE BtoiOrZero(Nth0(Last(replies)))

RECURSIVE Total(_)
\* the loop of reply_cmd over the subs of a DEL or EXISTS: a sub without a
\* reply adds nothing
Total(replies) ==
    IF replies = <<>> THEN 0
    ELSE (IF Head(replies) = NoneRaw THEN 0 ELSE BtoiOrZero(Nth0(Head(replies))))
            + Total(Tail(replies))

\* Command::reply_cmd of a DEL or EXISTS whose subs carry the given replies
ReplyCmdCount(buf, replies) ==
    LET begin == Len(buf)
        b == ((buf \o BYTES_INTEGER) \o Itoa(Total(replies))) \o BYTES_CRLF
    IN [ok |-> TRUE, buf |-> b, size |-> Len(b) - begin]

ReplyCmdCountCalls ==
    {[fn |-> "reply_cmd_count", replies |-> rs] :
        rs \in SeqsFromTo({Int0, Int1, Int2, ErrorE, NoneRaw}, 1, MaxKeys)}

ReplyCmdCountCall ==
    /\ call.fn = "reply_cmd_count" /\ ~ret.done
    /\ ret' = [done |-> TRUE, value |-> ReplyCmdCount(<<>>, call.replies)]
    /\ UNCHANGED <<machineVars, call>>

SLOTS_COUNT == 16384

\* the metadata a process may have installed: ip and port, both strings
Ip7 == <<"1", "0", ".", "0", ".", "0", ".", "7">>
Ip1 == <<"1", "2", "7", ".", "0", ".", "0", ".", "1">>
Port6379 == <<"6", "3", "7", "9">>
Port80 == <<"8", "0">>
Metas == {[ip |-> i, port |-> p] : i \in {Ip7, Ip1}, p \in {Port6379, Port80}}

\* one line of a reply: the bytes and CRLF
Line(bytes) == bytes \o BYTES_CRLF

RECURSIVE Zeros(_)
Zeros(n) == IF n = 0 THEN <<>> ELSE <<"0">> \o Zeros(n - 1)

\* the fake node ids of the format string: 39 zeros and a digit
NodeId(d) == Zeros(39) \o <<d>>

\* one range of the format string of build_cluster_slots_reply
SlotsEntry(begin, end, meta, id) ==
    Line(<<"*", "3">>) \o Line(<<":">> \o begin) \o Line(<<":">> \o end)
        \o Line(<<"*", "3">>)
        \o Line(<<"$">> \o Itoa(Len(meta.ip))) \o Line(meta.ip)
        \o Line(<<":">> \o meta.port)
        \o Line(<<"$", "4", "0">>) \o Line(id)

\* build_cluster_slots_reply, for the metadata get_ip and get_port return
BuildClusterSlotsReply(meta) ==
    Line(<<"*", "3">>)
        \o SlotsEntry(<<"0">>, <<"5", "4", "6", "0">>, meta, NodeId("1"))
        \o SlotsEntry(<<"5", "4", "6", "1">>, <<"1", "0", "9", "2", "2">>, meta,
                      NodeId("2"))
        \o SlotsEntry(<<"1", "0", "9", "2", "3">>, <<"1", "6", "3", "8", "3">>, meta,
                      NodeId("3"))

\* the offset of the first CR at or after pos (0 when there is none)
RECURSIVE FindCr(_, _)
FindCr(buf, pos) ==
    IF pos > Len(buf) THEN 0
    ELSE IF buf[pos] = "\r" THEN pos ELSE FindCr(buf, pos + 1)

BadFrame == [ok |-> FALSE, t |-> "bad", data |-> <<>>, items |-> <<>>, next |-> 0]

RECURSIVE ParseAt(_, _)
RECURSIVE ParseItems(_, _, _)
\* MessageMut::parse of one frame that starts at pos: integer, bulk string or
\* array; next is the position after the frame
ParseAt(buf, pos) ==
    LET cr == FindCr(buf, pos)
        head == SubSeq(buf, pos + 1, cr - 1)
        n == BtoiFrom(0, head)
    IN IF pos > Len(buf) \/ cr = 0 \/ cr + 1 > Len(buf) \/ buf[cr + 1] # "\n"
       THEN BadFrame
       ELSE IF buf[pos] = ":"
       THEN IF head = <<>> \/ n < 0 THEN BadFrame
            ELSE [ok |-> TRUE, t |-> "int", data |-> head, items |-> <<>>,
                  next |-> cr + 2]
       ELSE IF buf[pos] = "$"
       THEN IF head = <<>> \/ n < 0 \/ cr + 1 + n + 2 > Len(buf)
                \/ SubSeq(buf, cr + 2 + n, cr + 3 + n) # BYTES_CRLF
            THEN BadFrame
            ELSE [ok |-> TRUE, t |-> "bulk", data |-> SubSeq(buf, cr + 2, cr + 1 + n),
                  items |-> <<>>, next |-> cr + 4 + n]
       ELSE IF buf[pos] = "*"
       THEN IF head = <<>> \/ n < 0 THEN BadFrame
            ELSE LET r == ParseItems(buf, cr + 2, n)
                 IN IF ~r.ok THEN BadFrame
                    ELSE [ok |-> TRUE, t |-> "array", data |-> <<>>,
                          items |-> r.items, next |-> r.next]
       ELSE BadFrame

\* the n frames of an array, the first of which starts at pos
ParseItems(buf, pos, n) ==
    IF n = 0 THEN [ok |-> TRUE, items |-> <<>>, next |-> pos]
    ELSE LET f == ParseAt(buf, pos)
         IN IF ~f.ok THEN [ok |-> FALSE, items |-> <<>>, next |-> 0]
            ELSE LET r == ParseItems(buf, f.next, n - 1)
                 IN [ok |-> r.ok, items |-> <<f>> \o r.items, next |-> r.next]

\* get_data: the payload of the frame at index (counted from 0) of each
GetData(index, each) ==
    IF index + 1 <= Len(each) /\ each[index + 1].t # "array"
    THEN [ok |-> TRUE, data |-> each[index + 1].data]
    ELSE [ok |-> FALSE, data |-> <<>>]

\* get_number: btoi of get_data
GetNumber(index, each) ==
    LET d == GetData(index, each)
    IN IF d.ok /\ d.data # <<>> /\ BtoiFrom(0, d.data) >= 0
       THEN [ok |-> TRUE, num |-> BtoiFrom(0, d.data)]
       ELSE [ok |-> FALSE, num |-> 0]

GetAddrWithoutPort(each) ==
    IF each.t = "array" /\ GetData(0, each.items).ok
    THEN [ok |-> TRUE, addr |-> GetData(0, each.items).data]
    ELSE [ok |-> FALSE, addr |-> <<>>]

\* get_addr: format!("{}:{}", addr, port)
GetAddr(each) ==
    IF each.t = "array" /\ GetNumber(1, each.items).ok /\ GetData(0, each.items).ok
    THEN [ok |-> TRUE,
          addr |-> (GetData(0, each.items).data \o <<":">>)
                       \o Itoa(GetNumber(1, each.items).num)]
    ELSE [ok |-> FALSE, addr |-> <<>>]

RECURSIVE Replicas(_)
\* the replica set of a range: get_addr of each frame after the third
Replicas(rest) ==
    IF rest = <<>> THEN {} ELSE {GetAddr(Head(rest)).addr} \cup Replicas(Tail(rest))

\* for i in begin..=end { map.insert(i, v) }
InsertRange(map, begin, end, v) ==
    [i \in (DOMAIN map) \cup (begin..end) |-> IF i \in begin..end THEN v ELSE map[i]]

NoLayout == [ok |-> FALSE, mrepusts |-> <<>>, replicas |-> <<>>]

RECURSIVE LayoutOf(_, _, _)
\* the loop of slots_reply_to_replicas over the ranges of the reply; the two
\* BTreeMaps are functions of the slot
LayoutOf(subs, mrepusts, replicas) ==
    IF subs = <<>> THEN [ok |-> TRUE, mrepusts |-> mrepusts, replicas |-> replicas]
    ELSE LET sub == Head(subs)
             begin == GetNumber(0, sub.items)
             end == GetNumber(1, sub.items)
         IN IF sub.t # "array" \/ ~begin.ok \/ ~end.ok \/ Len(sub.items) < 3
               \/ ~GetAddr(sub.items[3]).ok
               \/ \E i \in 4..Len(sub.items) : ~GetAddr(sub.items[i]).ok
            THEN NoLayout
            ELSE LayoutOf(Tail(subs),
                          InsertRange(mrepusts, begin.num, end.num,
                                      GetAddr(sub.items[3]).addr),
                          InsertRange(replicas, begin.num, end.num,
                                      Replicas(SubSeq(sub.items, 4, Len(sub.items)))))

\* slots_reply_to_replicas of a command whose reply is msg; the two lists are
\* the values of the maps in the order of the slots
SlotsReplyToReplicas(msg) ==
    IF msg.ok /\ msg.t = "array" THEN LayoutOf(msg.items, <<>>, <<>>) ELSE NoLayout

\* the layout read back from the reply the proxy synthesizes
SlotsLayoutCalls == {[fn |-> "slots_layout", meta |-> m] : m \in Metas}

SlotsLayoutCall ==
    /\ call.fn = "slots_layout" /\ ~ret.done
    /\ ret' = [done |-> TRUE,
               value |-> SlotsReplyToReplicas(
                             ParseAt(BuildClusterSlotsReply(call.meta), 1))]
    /\ UNCHANGED <<machineVars, call>>

\* requests of one to four bulks: a verb and up to three arguments
KeyHashCalls ==
    {[fn |-> "key_hash", verb |-> v, args |-> a] :
        v \in DOMAIN VerbBytes, a \in SeqsFromTo({Foo, Baz}, 0, 3)}

KeyHashCall ==
    /\ call.fn = "key_hash" /\ ~ret.done
    /\ ret' = [done |-> TRUE,
               value |-> KeyHashOfReq(GetCmdType(call.verb),
                                      <<VerbBytes[call.verb]>> \o call.args, <<>>)]
    /\ UNCHANGED <<machineVars, call>>

(***************************************************************************)
(* The RingKeeper's sender entries and StandaloneCluster::init.            *)
(***************************************************************************)
RingAddrs == {"A", "B", "C"}

\* the senders of the entries that exist before the call, and the sender of
\* the channel a call of connect creates
OldSender == "old"
NewSender == "new"

\* Ring::addrs
Ring_addrs(inner) == DOMAIN inner

\* a removal that leaves the entry in place
KeepConn(inner, addr) == inner

\* Ring::remove_conn
Ring_remove_conn(inner, addr) == [a \in DOMAIN inner \ {addr} |-> inner[a]]

\* Ring::insert_conn
Ring_insert_conn(inner, s, sender) ==
    [a \in DOMAIN inner \cup {s} |->
        IF a = s THEN [addr |-> s, sender |-> sender] ELSE inner[a]]

\* StandaloneCluster::connect: the free function connect creates the channel
\* and spawns the task, and returns the sender
StandaloneCluster_connect(inner, addr) ==
    Ring_insert_conn(Ring_remove_conn(inner, addr), addr, NewSender)

RECURSIVE ConnectAll(_, _)
ConnectAll(inner, as) ==
    IF as = {} THEN inner
    ELSE LET a == CHOOSE x \in as : TRUE
         IN ConnectAll(StandaloneCluster_connect(inner, a), as \ {a})

RECURSIVE RemoveAll(_, _)
RemoveAll(inner, as) ==
    IF as = {} THEN inner
    ELSE LET a == CHOOSE x \in as : TRUE
         IN RemoveAll(Ring_remove_conn(inner, a), as \ {a})

\* ServerLine::split_spots: the addresses of the server lines, and the aliases
\* of the lines that have one
SplitSpots(servers) ==
    [nodes |-> [i \in 1..Len(servers) |-> servers[i].addr],
     alias |-> [i \in 1..Len(servers) |-> servers[i].alias]]

\* the sender entries after StandaloneCluster::init
StandaloneCluster_init(inner, servers) ==
    LET nodes == SplitSpots(servers).nodes
        alias == IF \A i \in 1..Len(servers) : servers[i].alias = "" THEN <<>>
                 ELSE SplitSpots(servers).alias
        alias_map == {<<alias[i], nodes[i]>> : i \in 1..Len(alias)}
        spots_keys == IF alias = <<>> THEN Range(nodes) ELSE Range(alias)
        addrs == IF alias_map # {} THEN {e[2] : e \in alias_map} ELSE spots_keys
        old_addrs == Ring_addrs(inner)
        new_addrs == addrs \ old_addrs
        unused_addrs == old_addrs \ addrs
    IN RemoveAll(ConnectAll(inner, new_addrs), unused_addrs)

\* the rings that exist before a call: some addresses have an entry
Rings ==
    {[a \in S |-> [addr |-> a, sender |-> OldSender]] : S \in SUBSET RingAddrs}

AliasOf(a) == CASE a = "A" -> "a1" [] a = "B" -> "b1" [] a = "C" -> "c1"

\* configurations of one to MaxServers servers with distinct addresses, all
\* of them with an alias or none of them
ServerLines ==
    {[addr |-> a, alias |-> ""] : a \in RingAddrs}
        \cup {[addr |-> a, alias |-> AliasOf(a)] : a \in RingAddrs}

ServerLists ==
    {sv \in SeqsFromTo(ServerLines, 1, MaxServers) :
        /\ \A i \in 1..Len(sv) : \A j \in 1..Len(sv) :
              i # j => sv[i].addr # sv[j].addr
        /\ \A i \in 1..Len(sv) : (sv[i].alias = "") = (sv[1].alias = "")}

RingInitCalls ==
    {[fn |-> "init", inner |-> r, servers |-> sv] : r \in Rings, sv \in ServerLists}

RingInitCall ==
    /\ call.fn = "init" /\ ~ret.done
    /\ ret' = [done |-> TRUE,
               value |-> StandaloneCluster_init(call.inner, call.servers)]
    /\ UNCHANGED <<machineVars, call>>

InsertConnCalls ==
    {[fn |-> "insert_conn", inner |-> r, addr |-> a] : r \in Rings, a \in RingAddrs}

InsertConnCall ==
    /\ call.fn = "insert_conn" /\ ~ret.done
    /\ ret' = [done |-> TRUE,
               value |-> Ring_insert_conn(call.inner, call.addr, NewSender)]
    /\ UNCHANGED <<machineVars, call>>

PureInit ==
    /\ Start
    /\ proto = "redis"
    /\ backKind = [n \in Nodes |-> "back"]
    /\ call \in UNION {TrimCalls, MkSubsCalls, ReplyCmdCalls, MkMSetCalls,
                       ReplyCmdMSetCalls, ReplyCmdCountCalls, SlotsLayoutCalls,
                       KeyHashCalls, RingInitCalls, InsertConnCalls}
    /\ ret = NoRet

PureNext ==
    \/ TrimHashTagCall
    \/ MkSubsCall
    \/ ReplyCmdCall
    \/ MkMSetCall
    \/ ReplyCmdMSetCall
    \/ ReplyCmdCountCall
    \/ SlotsLayoutCall
    \/ KeyHashCall
    \/ RingInitCall
    \/ InsertConnCall

PureSpec == PureInit /\ [][PureNext]_vars

(***************************************************************************)
(* Commands in read order.  Ids are allocated as requests are decoded, so  *)
(* the requests read from the client are the ids that are no command's sub.*)
(***************************************************************************)
SubIds == UNION {Range(cmds[i].subs) : i \in 1..Len(cmds)}
Requests == {i \in 1..Len(cmds) : i \notin SubIds}

\* C1: the Front hands replies to the client sink in the order the requests
\* were read: the reply of a request is never submitted before the reply of a
\* request read earlier on the same connection.
C1_RepliesInReadOrder ==
    \A i, j \in 1..Len(written) : i < j => written[i] < written[j]

\* two replies were written and the second request (a PING, DONE as soon as it
\* was read) had completed before the first one, which a backend answered
C1_Witness ==
    /\ Len(written) = 2
    /\ cmds[written[1]].reply.kind = "reply"
    /\ cmds[written[2]].reply.kind = "PONG"

\* C2: the replies handed to the client sink are the identity permutation of
\* the requests read: while the connection is served, the requests read so far
\* are exactly the written ones followed by the queued ones, each once and in
\* request order, so that none goes missing and none is duplicated.
C2_WrittenIsIdentity ==
    ~frontDone =>
        LET all == written \o sent_queue
        IN /\ Range(all) = Requests
           /\ Len(all) = Cardinality(Requests)
           /\ \A i, j \in 1..Len(all) : i < j => all[i] < all[j]

\* C3: a Front tick that finds the head of sent_queue DONE while the client
\* sink's poll_ready returns Pending leaves that command at the head of
\* sent_queue.
C3_PendingKeepsHead ==
    [][\A snd \in SinkSend, flush \in SinkFlush, shape \in Shapes :
          (FrontHeadDone /\ FrontPoll("Pending", snd, flush, shape))
              => (sent_queue' # <<>> /\ Head(sent_queue') = Head(sent_queue))]_vars

\* C4: when the only request of the client was sent to a backend that never
\* replies and the Back has set CmdTimeout on it, the client eventually
\* receives the timeout error for that request.
C4_TimeoutReachesClient ==
    (Len(cmds) >= 1 /\ cmds[1].reply.kind = "CmdTimeout")
        ~> (1 \in Range(written) \/ clientClosed)

\* C5: a backend reply is only ever recorded on the Command it answers.
C5_ReplyOnItsCommand ==
    \A c \in 1..Len(cmds) :
        cmds[c].reply.kind = "reply" => cmds[c].reply.of = c

\* C6: when the backend sink reports an error for the command Back is about to
\* send and that command's cycle is below MAX_CYCLE, Back increments the cycle
\* and keeps the command in store for a retry on the next tick; otherwise it
\* sets ProxyFail on the command and clears store.
C6_SinkErrorRetries ==
    [][\A b \in Nodes, snd \in SinkSend, expired \in BOOLEAN, up \in StreamItems :
          LET cmd == Refill(BackState(b)).store
          IN (BackNeedsSink(b) /\ BackPoll(b, "Err", snd, expired, up))
                => IF Command_can_cycle(cmds[cmd])
                   THEN /\ cmds'[cmd].cycle = cmds[cmd].cycle + 1
                        /\ store'[b] = cmd
                   ELSE /\ cmds'[cmd].reply.kind = "ProxyFail"
                        /\ store'[b] = 0]_vars

\* C7: every Command that a Back drops while it is not DONE (left in store, on
\* the sub stack or in the channel when the task ends, or discarded by the
\* task) has a ProxyFail reply recorded.
C7_DroppedGetsProxyFail ==
    \A c \in abandoned : cmds[c].reply.kind = "ProxyFail"

\* C8: a request whose dispatch failed (no sender, or a disconnected channel)
\* is DONE with ClusterFailDispatch, whether it is a single-key command or a
\* multi-key command with subs.
C8_DispatchFailureIsDone ==
    \A c \in Requests :
        cmds[c].reply.kind = "ClusterFailDispatch" => IsDone(cmds, c)

\* C9: every Command a BlackHole answered with BackendClosedError is DONE,
\* including one that carries subs.
C9_BlackHoleReplyIsDone ==
    \A c \in Requests :
        cmds[c].reply.kind = "BackendClosedError" => IsDone(cmds, c)

\* the commands the task of address b holds or has written to its backend
HeldBy(b) ==
    Range(chan[b]) \cup Range(sub_cmds[b]) \cup Range(wire[b])
        \cup (IF store[b] = 0 THEN {} ELSE {store[b]})

\* C10: each sub-command of a multi-key request is routed by the hash of its
\* own key: it is only ever handled by the task of the node its key hashes to
\* (GET foo by A, GET baz by B).
C10_SubsRoutedByOwnKey ==
    \A b \in Nodes : \A c \in HeldBy(b) :
        c \in SubIds => NodeOfKey(cmds[c].key) = b

\* the cluster's configured hash_tag, handed to Front::new
HashTag == <<"{", "}">>

\* C11: the Front routes by the hash of the key trimmed to the cluster's hash
\* tag: two commands whose keys have equal contents between the tag
\* delimiters are never held by the tasks of two different backends.
C11_EqualTagsSameBackend ==
    \A b1, b2 \in Nodes : \A c1 \in HeldBy(b1), c2 \in HeldBy(b2) :
        TrimHashTag(cmds[c1].key, HashTag) = TrimHashTag(cmds[c2].key, HashTag)
            => b1 = b2

\* C12: for a two-byte hash tag (o, c), trim_hash_tag returns the bytes
\* strictly between the first o of the key and the first c strictly after it
\* when c is at least two positions after o, and the full key otherwise, also
\* when the hash tag is not exactly two bytes long.
C12_TrimHashTagContract ==
    (call.fn = "trim_hash_tag" /\ ret.done) =>
        LET key == call.key
            tag == call.hash_tag
            o == Position(key, tag[1])
            after == {j \in (o + 1)..Len(key) : key[j] = tag[2]}
            c == CHOOSE j \in after : \A i \in after : j <= i
        IN ret.value =
              IF Len(tag) = 2 /\ o # 0 /\ after # {} /\ c - o >= 2
              THEN SubSeq(key, o + 1, c - 1)
              ELSE key

C14_CommandAnsweredLocally ==
    \A c \in 1..Len(cmds) :
        cmds[c].verb = "COMMAND" =>
            /\ cmds[c].done
            /\ cmds[c].reply.kind = "NullArray"
            /\ \A b \in Nodes : c \notin HeldBy(b)

\* C15: a request whose verb is unknown, or mapped to NotSupport in the
\* command table, is DONE with the "request not supported" error reply once
\* the Front has read it, and is never held by a backend task.
C15_NotSupportAnsweredLocally ==
    \A c \in 1..Len(cmds) :
        (cmds[c].verb \notin DOMAIN CmdTable \/ CmdTable[cmds[c].verb] = "NotSupport")
            => /\ cmds[c].done
               /\ cmds[c].reply.kind = "RequestNotSupport"
               /\ \A b \in Nodes : c \notin HeldBy(b)

\* a request with an unknown verb and a SELECT were read and both error
\* replies were handed to the client
C15_Witness ==
    /\ Len(cmds) = 2
    /\ cmds[1].verb = "BOGUS" /\ cmds[2].verb = "SELECT"
    /\ written = <<1, 2>>
    /\ cmds[1].reply.kind = "RequestNotSupport"

\* the reply of a QUIT has been handed to the client sink and flushed
QuitFlushed ==
    /\ faults = 0
    /\ \E i \in 1..Len(written) : cmds[written[i]].verb = "QUIT"

\* C16: after a client's QUIT has been answered and the answer flushed, the
\* Front closes the connection: no later request of that client is read.
C16_QuitClosesConnection ==
    [][QuitFlushed => Len(cmds') = Len(cmds)]_vars

\* the commands that connect sent, and the requests read from the client
ClusterCmds == {AuthCmdOf(b) : b \in Nodes}
ClientCmds == Requests \ ClusterCmds

\* C17: on a cluster with a non-empty auth string, a command of a client that
\* has not issued AUTH before it is not dispatched and, once answered, carries
\* the NOAUTH error; the client's AUTH itself is never sent upstream.
C17_ClientMustAuthenticate ==
    \A c \in ClientCmds :
        /\ \A b \in Nodes : c \notin HeldBy(b)
        /\ (/\ cmds[c].verb # "AUTH"
            /\ \A a \in ClientCmds : a < c => cmds[a].verb # "AUTH"
            /\ cmds[c].done)
              => cmds[c].reply.kind = "NoAuth"

\* C18: on a backend connection of a cluster with a non-empty auth string the
\* auth command is written first and answered before any command of a client
\* is written: whenever a client command is on the wire of a backend, that
\* backend has answered the auth command.
C18_AuthWrittenFirst ==
    \A b \in Nodes : \A c \in Range(wire[b]) :
        c \in ClientCmds => cmds[AuthCmdOf(b)].reply = BackendReply(AuthCmdOf(b))

\* C19: when the client stream yields None the Front finishes only after
\* draining: unless the sink has failed past the cap, every command that was
\* in sent_queue has had its reply handed to the client sink by the time the
\* Front returns Ready.
C19_FrontDrainsBeforeFinishing ==
    [][(/\ ~frontDone /\ frontDone'
        /\ upstream_poll_error' <= FRONTEND_MAX_POLL_ERROR)
          => \A c \in Range(sent_queue) : c \in Range(written')]_vars

RECURSIVE Flatten(_)
\* the concatenation of a sequence of byte sequences, in order
Flatten(ss) == IF ss = <<>> THEN <<>> ELSE Head(ss) \o Flatten(Tail(ss))

RECURSIVE SumLen(_)
SumLen(ss) == IF ss = <<>> THEN 0 ELSE Len(Head(ss)) + SumLen(Tail(ss))

\* C20: for an MGET with n >= 1 keys the fan-out creates exactly n subs, sub i
\* carrying the request's verb and only key i; and when every sub has a reply
\* the aggregated reply is the array header *n CRLF followed by the raw reply
\* of each sub in key order, so that its length is the length of the header
\* plus the sum of the lengths of the sub replies.
C20_MGetFanOutAndReply ==
    /\ (call.fn = "mk_subs" /\ ret.done) =>
          LET n == Len(call.keys)
              cs == ret.value
          IN /\ Len(cs) = n + 1
             /\ Len(cs[1].subs) = n
             /\ \A i \in 1..n :
                   /\ cs[1].subs[i] = i + 1
                   /\ cs[i + 1].verb = call.verb
                   /\ cs[i + 1].key = call.keys[i]
                   /\ cs[i + 1].subs = <<>>
    /\ (call.fn = "reply_cmd" /\ ret.done /\ NoneRaw \notin Range(call.replies)) =>
          LET n == Len(call.replies)
              header == <<"*", Digits[n + 1], "\r", "\n">>
          IN /\ ret.value.ok
             /\ ret.value.buf = header \o Flatten(call.replies)
             /\ Len(ret.value.buf) = Len(header) + SumLen(call.replies)

\* the aggregated reply of an MGET of two keys whose subs were answered with a
\* bulk string and with the null bulk string
C20_Witness ==
    /\ call.fn = "reply_cmd" /\ ret.done
    /\ call.replies = <<BulkA, NullBulk>>
    /\ ret.value.buf = <<"*", "2", "\r", "\n">> \o BulkA \o NullBulk

\* C21: MSET k1 v1 ... kn vn is decomposed into exactly n subs, sub i carrying
\* the verb, ki and vi, and the aggregated reply written to the client is +OK
\* exactly when all n subs have succeeded.
C21_MSetFanOutAndReply ==
    /\ (call.fn = "mk_mset" /\ ret.done) =>
          LET n == Len(call.args) \div 2
          IN /\ Len(ret.value.reqs) = n
             /\ Len(ret.value.cmds) = n + 1
             /\ \A i \in 1..n :
                   ret.value.reqs[i]
                       = <<call.verb, call.args[2 * i - 1], call.args[2 * i]>>
    /\ (call.fn = "reply_cmd_mset" /\ ret.done) =>
          (ret.value.buf = BYTES_JUST_OK
              <=> \A i \in 1..Len(call.replies) : call.replies[i] = BYTES_JUST_OK)

\* the value of an integer reply of a sub
IntegerOf(raw) == CASE raw = Int0 -> 0 [] raw = Int1 -> 1 [] raw = Int2 -> 2

RECURSIVE SumOf(_)
SumOf(replies) ==
    IF replies = <<>> THEN 0 ELSE IntegerOf(Head(replies)) + SumOf(Tail(replies))

\* C22: a DEL or EXISTS of n keys is split into n subs, one per key, and when
\* every sub was answered with an integer the aggregated reply is the integer
\* reply whose value is the sum of the subs' integers.
C22_CountFanOutAndSum ==
    /\ (call.fn = "mk_subs" /\ call.verb \in {"DEL", "EXISTS"} /\ ret.done) =>
          /\ Len(ret.value) = Len(call.keys) + 1
          /\ \A i \in 1..Len(call.keys) :
                /\ ret.value[i + 1].verb = call.verb
                /\ ret.value[i + 1].key = call.keys[i]
    /\ (/\ call.fn = "reply_cmd_count" /\ ret.done
        /\ Range(call.replies) \subseteq {Int0, Int1, Int2}) =>
          ret.value.buf = <<":", Digits[SumOf(call.replies) + 1], "\r", "\n">>

\* the subs of a DEL of three keys answered :1, :0, :1 and the client is
\* answered :2
C22_Witness ==
    /\ call.fn = "reply_cmd_count" /\ ret.done
    /\ call.replies = <<Int1, Int0, Int1>>
    /\ ret.value.buf = Int2

\* C23: a SCAN request is fanned out as one sub-command per backend (and the
\* client is answered with *2, the bulk cursor 0 and the array of the items of
\* all the subs): a SCAN the Front has read has one sub per backend and is not
\* itself handed to a backend task.
C23_ScanFannedOut ==
    \A c \in Requests :
        cmds[c].verb = "SCAN" =>
            /\ Len(cmds[c].subs) = Cardinality(Nodes)
            /\ \A b \in Nodes : c \notin HeldBy(b)

\* C24: a CLUSTER SLOTS request is answered by the proxy itself: once the
\* Front has read it, it is DONE with the synthesized slots reply (three
\* ranges covering the 16384 slots, each naming the proxy's own ip and port)
\* and it is never handed to a backend task.
C24_ClusterSlotsAnsweredLocally ==
    \A c \in Requests :
        (cmds[c].verb = "CLUSTER" /\ cmds[c].key = BYTES_SLOTS) =>
            /\ cmds[c].done
            /\ cmds[c].reply.kind = "ClusterSlots"
            /\ \A b \in Nodes : c \notin HeldBy(b)

\* the number of entries of the list of masters of a layout
MastersLen(layout) == Cardinality(DOMAIN layout.mrepusts)

\* C25 as stated: the layout read back from the synthesized CLUSTER SLOTS
\* reply has three masters and every replica list is empty.
C25_ThreeMasters ==
    (call.fn = "slots_layout" /\ ret.done) =>
        /\ ret.value.ok
        /\ MastersLen(ret.value) = 3
        /\ \A slot \in DOMAIN ret.value.replicas : ret.value.replicas[slot] = {}

\* C25: the layout read back from the synthesized CLUSTER SLOTS reply has one
\* master entry and one replica list per slot, SLOTS_COUNT of each: every
\* master entry is ip:port of the metadata and every replica list is empty.
C25_LayoutPerSlot ==
    (call.fn = "slots_layout" /\ ret.done) =>
        /\ ret.value.ok
        /\ DOMAIN ret.value.mrepusts = 0..(SLOTS_COUNT - 1)
        /\ DOMAIN ret.value.replicas = 0..(SLOTS_COUNT - 1)
        /\ \A slot \in 0..(SLOTS_COUNT - 1) :
              /\ ret.value.mrepusts[slot] = (call.meta.ip \o <<":">>) \o call.meta.port
              /\ ret.value.replicas[slot] = {}

\* the reply synthesized for 10.0.0.7:6379 was read back: slot 5461, the first
\* of the second range, has a master and no replica
C25_Witness ==
    /\ call.fn = "slots_layout" /\ ret.done
    /\ call.meta = [ip |-> Ip7, port |-> Port6379]
    /\ ret.value.ok
    /\ 5461 \in DOMAIN ret.value.mrepusts
    /\ ret.value.replicas[5461] = {}

\* the index of the routing key of a request, by its verb
RoutingIndex(verb) ==
    CASE verb = "EVAL" -> 3
      [] verb \in {"INFO", "COMMAND"} -> 0
      [] verb = "MEMORY" -> 2
      [] OTHER -> 1

\* C26: the routing key of a Redis request is the bulk at index 1 by default,
\* at index 3 for EVAL, at index 0 (the verb) for INFO and COMMAND and at
\* index 2 for MEMORY, and the hash is the hash of that bulk.
C26_RoutingKeyPosition ==
    (call.fn = "key_hash" /\ ret.done) =>
        LET req == <<VerbBytes[call.verb]>> \o call.args
            i == RoutingIndex(call.verb)
        IN /\ ret.value.pos = i
           /\ ret.value.max = (Len(req) <= i)
           /\ Len(req) > i => ret.value.hash = Fnv1a64(req[i + 1])

\* EVAL script numkeys baz: the hash is that of baz, the bulk at index 3, and
\* not that of the bulk at index 1
C26_Witness ==
    /\ call.fn = "key_hash" /\ ret.done
    /\ call.verb = "EVAL" /\ call.args = <<Foo, Foo, Baz>>
    /\ ret.value.hash = Fnv1a64(Baz)
    /\ ret.value.hash # Fnv1a64(Foo)

\* the commands some task still has a handle of: those on the Front's queue,
\* those a backend task holds, and the subs of either
Held ==
    (Range(sent_queue)
        \cup UNION {Range(chan[b]) \cup Range(sub_cmds[b]) \cup {store[b]} :
                        b \in Nodes}) \ {0}
Live == Held \cup UNION {Range(cmds[c].subs) : c \in Held}

\* C27: in every reachable state a leaf command (one without subs) has the
\* DONE flag set if and only if its reply slot is Some.
C27_LeafDoneIffReply ==
    \A c \in Live : ~HasSubs(cmds, c) => (cmds[c].done <=> ReplyIsSome(cmds[c]))

\* C28: in every reachable state every command has cycle <= MAX_CYCLE:
\* add_cycle is applied only when can_cycle holds.
C28_CycleBounded ==
    \A c \in 1..Len(cmds) : cmds[c].cycle <= MAX_CYCLE

\* the sink of a Back failed for a command, which has used its one cycle
C28_Witness ==
    /\ \E c \in 1..Len(cmds) : cmds[c].cycle = MAX_CYCLE
    /\ \E b \in Nodes : downstream_poll_error[b] = 1

\* the leaves of a request: its subs, or the request itself
LeavesOf(c) == IF HasSubs(cmds, c) THEN Range(cmds[c].subs) ELSE {c}

\* the request c was taken from the channel of b: the Front dispatched it
\* there and it has left the channel
TakenBy(b) ==
    {c \in Requests :
        /\ cmds[c].waker /\ GetSender(KeyHash(cmds[c], <<>>), Nodes, Nodes) = b
        /\ c \notin Range(chan[b])}

\* C29: for each backend channel no received command is silently lost: every
\* command the Back has taken from the channel has been replied to, errored
\* or timed out (it is DONE), or is still held in store or on the sub stack.
C29_NoCommandLost ==
    \A b \in Nodes : backKind[b] = "back" =>
        \A c \in TakenBy(b) : \A l \in LeavesOf(c) :
            \/ cmds[l].done
            \/ store[b] = l
            \/ l \in Range(sub_cmds[b])

\* C30: a command with subs reports DONE if and only if every sub is DONE,
\* and throughout its life its own reply slot stays None and its own DONE and
\* ERROR flags are never set.
C30_ParentComputedFromSubs ==
    \A c \in 1..Len(cmds) :
        HasSubs(cmds, c) =>
            /\ IsDone(cmds, c) <=> \A l \in Range(cmds[c].subs) : cmds[l].done
            /\ ~ReplyIsSome(cmds[c])
            /\ ~cmds[c].done
            /\ ~cmds[c].error

\* C31: a command's reply is set exactly once: a step that applies set_reply
\* or set_error to a command that is already DONE leaves its reply unchanged
\* and does not clear its ERROR flag.
C31_ReplySetOnce ==
    [][\A c \in 1..Len(cmds) :
          cmds[c].done =>
              /\ cmds'[c].reply = cmds[c].reply
              /\ cmds[c].error => cmds'[c].error]_vars

\* a command that carries a waker goes from not DONE to DONE in this step
OutcomeRecorded ==
    \E c \in 1..Len(cmds) : ~cmds[c].done /\ cmds'[c].done /\ cmds'[c].waker

\* C32: whenever a Back or BlackHole task records an outcome on a command (a
\* backend reply, CmdTimeout, ProxyFail, BackendClosedError or a stream
\* error), the Front task whose waker is registered on it is woken, for Redis
\* and for Memcached commands.
C32_OutcomeWakesFront ==
    [][((\E b \in Nodes : BackStep(b) \/ BlackHolePoll(b))
            /\ OutcomeRecorded /\ ~frontDone) => frontAwake']_vars

\* this tick of the Back of address b hands a command to the backend sink
\* with success: poll_ready and start_send both return Ok
SuccessfulSend(b) ==
    /\ BackNeedsSink(b)
    /\ \E expired \in BOOLEAN : \E up \in StreamItems :
          BackPoll(b, "Ok", "Ok", expired, up)

\* the Back of address b returns Ready in this tick although its backend
\* stream did not end and its channel has a sender
EndsOnSinkFailures(b) ==
    /\ ~backDone[b] /\ backDone'[b] /\ b \in ringInner
    /\ ~\E rdy \in SinkReady : \E snd \in SinkSend : \E expired \in BOOLEAN :
           BackPoll(b, rdy, snd, expired, "closed")

\* C33: a Back task ends because of sink failures only after more than
\* DOWNSTREAM_MAX_POLL_ERROR consecutive downstream failures: a tick that
\* records a per-command error without the stream ending does not end the
\* task while the count is within the cap, and a successful send restarts
\* the count of failures at zero.
C33_ConsecutiveSinkFailures ==
    [][\A b \in Nodes :
          /\ EndsOnSinkFailures(b)
                => downstream_poll_error'[b] > DOWNSTREAM_MAX_POLL_ERROR
          /\ SuccessfulSend(b) => downstream_poll_error'[b] = 0]_vars

\* C34: a Front task never finishes because of a per-command error: a tick
\* in which the task ends is one that found the client stream ended, or one
\* whose count of sink failures exceeds FRONTEND_MAX_POLL_ERROR.
C34_FrontEndsOnlyPastCap ==
    [][(~frontDone /\ frontDone') =>
          \/ clientClosed /\ pendingIn = 0
          \/ upstream_poll_error' > FRONTEND_MAX_POLL_ERROR]_vars

RECURSIVE LeafSeq(_)
\* the requests a sequence of Commands stands for, subs in their key order
LeafSeq(q) ==
    IF q = <<>> THEN <<>>
    ELSE (IF HasSubs(cmds, Head(q)) THEN cmds[Head(q)].subs ELSE <<Head(q)>>)
            \o LeafSeq(Tail(q))

RECURSIVE PopOrder(_)
\* the order in which Vec::pop empties a stack
PopOrder(st) ==
    IF st = <<>> THEN <<>> ELSE <<Last(st)>> \o PopOrder(ButLast(st))

\* what the Back of b has still to write, in the order it will take it: the
\* unsent command in store, the sub stack, the channel
ToWrite(b) ==
    (IF store[b] # 0 /\ ~HasSentTime(cmds, store[b]) THEN <<store[b]>> ELSE <<>>)
        \o PopOrder(sub_cmds[b]) \o LeafSeq(chan[b])

\* commands are numbered in the order the Front creates them, the subs of a
\* command in key order
Ascending(q) == \A i \in 1..Len(q) : \A j \in 1..Len(q) : i < j => q[i] < q[j]

\* C35: a Back task writes requests to its backend in the order it received
\* the Commands from the channel, the subs of a Command in their original key
\* order and all of them before the next Command of the channel: what is
\* left to write is always in the order of receipt, a successful send writes
\* the first request of it, and no later request overtakes it.
C35_WritesInReceiveOrder ==
    /\ [](\A b \in Nodes : backKind[b] = "back" => Ascending(ToWrite(b)))
    /\ [][\A b \in Nodes :
             SuccessfulSend(b) =>
                 /\ ToWrite(b) # <<>>
                 /\ wire'[b] # <<>> => Last(wire'[b]) = Head(ToWrite(b))
                 /\ ~backDone'[b] =>
                        ToWrite(b)' \in {ToWrite(b), Tail(ToWrite(b))}]_vars

\* the Back of A has written the first sub of a Command and holds a later sub
\* of it on its stack while another Command waits in the channel
C35_Witness ==
    /\ wire["A"] # <<>> /\ sub_cmds["A"] # <<>> /\ chan["A"] # <<>>

\* the addresses of a configuration
ConfigAddrs(servers) == {servers[i].addr : i \in 1..Len(servers)}

\* C36: after a (re)load of the configuration the addresses that have a
\* sender entry are exactly the addresses of the new configuration: an added
\* address has the sender of a new backend task, an address that stays keeps
\* its entry, an unused address has none; and insert_conn replaces the entry
\* of an address that has one.
C36_ReloadSetsSenders ==
    /\ (call.fn = "init" /\ ret.done) =>
          /\ DOMAIN ret.value = ConfigAddrs(call.servers)
          /\ \A a \in DOMAIN ret.value :
                /\ ret.value[a].addr = a
                /\ a \in DOMAIN call.inner => ret.value[a] = call.inner[a]
                /\ a \notin DOMAIN call.inner => ret.value[a].sender = NewSender
    /\ (call.fn = "insert_conn" /\ ret.done) =>
          /\ DOMAIN ret.value = DOMAIN call.inner \cup {call.addr}
          /\ ret.value[call.addr] = [addr |-> call.addr, sender |-> NewSender]
          /\ \A a \in DOMAIN call.inner \ {call.addr} :
                ret.value[a] = call.inner[a]

\* a reload that adds B, keeps A and no longer uses C
C36_Witness ==
    /\ call.fn = "init" /\ ret.done
    /\ DOMAIN call.inner = {"A", "C"}
    /\ ConfigAddrs(call.servers) = {"A", "B"}
    /\ ret.value["B"].sender = NewSender
    /\ ret.value["A"].sender = OldSender

\* the Back or BlackHole of address b returns Ready in this tick and its
\* backend stream did not end
EndsOnDisconnect(b) ==
    /\ ~backDone[b] /\ backDone'[b] /\ b \notin ringInner
    /\ ~\E rdy \in SinkReady : \E snd \in SinkSend : \E expired \in BOOLEAN :
           BackPoll(b, rdy, snd, expired, "closed")

\* C37: after remove_conn has dropped the sender of an address, the task of
\* that address terminates, and when it ends on finding its channel
\* disconnected it has taken every Command that was queued: the channel, the
\* sub stack and store are empty.
C37_DrainsThenTerminates ==
    /\ (Removed \notin ringInner) ~> backDone[Removed]
    /\ [][\A b \in Nodes :
             EndsOnDisconnect(b) =>
                 chan[b] = <<>> /\ sub_cmds[b] = <<>> /\ store[b] = 0]_vars

\* the entry of A was removed while a Command was queued in its channel, and
\* the Back of A has ended with nothing left in the channel
C37_Witness ==
    /\ "A" \notin ringInner /\ backKind["A"] = "back" /\ backDone["A"]
    /\ chan["A"] = <<>> /\ faults = 0
    /\ \E c \in 1..Len(cmds) : cmds[c].done /\ ~cmds[c].error

\* C38: for a Memcached command ProxyFail is forced only when the command is
\* really abandoned: in a step without a failure of the environment, a
\* command that was not DONE and now carries ProxyFail is one that no task
\* holds any more.
C38_ProxyFailOnlyWhenAbandoned ==
    [][\A c \in 1..Len(cmds) :
          (/\ proto = "mc" /\ faults' = faults
           /\ ~cmds[c].done
           /\ cmds'[c].reply = ErrReply("ProxyFail"))
              => c \notin Live']_vars

\* C39: a Back task hands each Command's request to the backend sink
\* successfully at most once: the request a successful send writes is not
\* one that is already on the wire awaiting its answer.
C39_WrittenAtMostOnce ==
    [][\A b \in Nodes :
          SuccessfulSend(b) => Head(ToWrite(b)) \notin Range(wire[b])]_vars

\* C40: the Front drains every DONE command of sent_queue without a further
\* wake-up from outside: a tick that writes the head's reply and leaves a
\* DONE command at the head of sent_queue leaves the task scheduled to be
\* polled again.
C40_DrainContinues ==
    [][(/\ Len(written') > Len(written)
        /\ ~frontDone'
        /\ sent_queue' # <<>>
        /\ IsDone(cmds', sent_queue'[PopFrontIndex(sent_queue')]))
           => frontAwake']_vars

=============================================================================
